---- MODULE Spec2Model ----
(***************************************************************************)
(* MyKakeiboApp: the application state holder of App.tsx (the three        *)
(* in-memory collections, the startup load, the save effect and the six    *)
(* mutation callbacks), the key/value store it persists to, and the        *)
(* screens that invoke the callbacks.                                      *)
(*                                                                         *)
(* Strings are sequences of characters, so that trim and decimal           *)
(* formatting/parsing are computed and not assumed; a kanji or kana        *)
(* character is written as the string of its reading ("shoku", "hi" are    *)
(* the two characters of the food category).  A date string "YYYY-MM-DD"   *)
(* is the triple <<year, month, day>> of its numeric fields.               *)
(* Time is counted in clock ticks since the Unix epoch (TicksPerDay ticks  *)
(* to a UTC day), the resolution at which Date.now() is read.              *)
(***************************************************************************)
EXTENDS Integers, Sequences, FiniteSets

VARIABLES
    expenses,      \* App state: Expense[]            (App.tsx:263)
    budgets,       \* App state: Budget[]             (App.tsx:264)
    categories,    \* App state: string[]             (App.tsx:265)
    isLoading,     \* App state: boolean              (App.tsx:266)
    loadPc,        \* loadData: the await it is suspended at   (App.tsx:273)
    stored,        \* loadData: storedExpenses, storedBudgets, storedCategories
    store,         \* AsyncStorage: key -> stored string
    writes,        \* AsyncStorage.setItem calls in flight, in order of issue
    rejections,    \* how many setItem calls the store has rejected so far
    landing,       \* history of the store: for each call in flight whether
                   \* a call of its key issued after it has resolved, and
                   \* for each key the call that resolved last
    now,           \* the clock read by Date.now()
    newCategory,   \* SettingsScreen state           (SettingsScreen.tsx:14)
    inputForm,     \* InputScreen state: amountInput, category, memo, date
                   \*                                 (InputScreen.tsx:38-41)
    budgetForm,    \* AnalysisScreen state: budgetCategory, budgetAmountInput
                   \*                                 (AnalysisScreen.tsx:41-42)
    analysisScreen,\* AnalysisScreen: currentYearMonth and what its last
                   \* render computed             (AnalysisScreen.tsx:44-99)
    editDialog,    \* HistoryScreen state: visible, editId, editAmount,
                   \* editMemo, editCategory, editDate (HistoryScreen:58-63)
    last           \* history: the operation that produced this state, its
                   \* argument and the state it was invoked in

appVars == <<expenses, budgets, categories, isLoading>>
loadVars == <<loadPc, stored>>
storeVars == <<store, writes, rejections, landing>>
formVars == <<newCategory, inputForm, budgetForm, editDialog>>
uiVars == <<formVars, analysisScreen>>
vars == <<appVars, loadVars, storeVars, now, uiVars, last>>

(***************************************************************************)
(* Bounds of the model.                                                    *)
(***************************************************************************)
MaxExpenses == 3
MaxAppExpenses == 1
MaxBudgets == 4
MaxInFlight == 3
MaxRejections == 1
MaxTicks == 1
MaxAnalysisExpenses == 3
MaxAnalysisTicks == 3
MaxInputExpenses == 1
MaxUiExpenses == 1
MaxHistoryExpenses == 3
MaxStoreInFlight == 6
MaxBatch == 2
MaxBatchExpenses == 2
TicksPerDay == 2
StartDay == 19874

(***************************************************************************)
(* Strings and numbers.                                                    *)
(***************************************************************************)
Digits == <<"0", "1", "2", "3", "4", "5", "6", "7", "8", "9">>

RECURSIVE ToString(_)
\* Number.prototype.toString() of a non-negative integer: its decimal digits.
ToString(n) ==
    IF n < 10 THEN <<Digits[n + 1]>>
    ELSE Append(ToString(n \div 10), Digits[(n % 10) + 1])

(***************************************************************************)
(* Dates.  Date.prototype.toISOString().split('T')[0] is the UTC calendar  *)
(* date of an instant; new Date("YYYY-MM-DD").getTime() is the instant of  *)
(* that date's UTC midnight.                                               *)
(***************************************************************************)
CivilFromDays(days) ==
    LET z == days + 719468
        era == z \div 146097
        doe == z - era * 146097
        yoe == (doe - doe \div 1460 + doe \div 36524 - doe \div 146096) \div 365
        doy == doe - (365 * yoe + yoe \div 4 - yoe \div 100)
        mp == (5 * doy + 2) \div 153
        d == doy - (153 * mp + 2) \div 5 + 1
        m == IF mp < 10 THEN mp + 3 ELSE mp - 9
        y == yoe + era * 400 + (IF m <= 2 THEN 1 ELSE 0)
    IN  <<y, m, d>>

DaysFromCivil(date) ==
    LET y == date[1] - (IF date[2] <= 2 THEN 1 ELSE 0)
        era == y \div 400
        yoe == y - era * 400
        mp == IF date[2] > 2 THEN date[2] - 3 ELSE date[2] + 9
        doy == (153 * mp + 2) \div 5 + date[3] - 1
        doe == yoe * 365 + yoe \div 4 - yoe \div 100 + doy
    IN  era * 146097 + doe - 719468

\* expense.date.toISOString().split('T')[0]
toISODate(instant) == CivilFromDays(instant \div TicksPerDay)

\* new Date(dateString).getTime()
getTime(dateString) == DaysFromCivil(dateString) * TicksPerDay

(***************************************************************************)
(* Array.prototype.sort with the comparator of handleAddExpense,           *)
(*   (a, b) => new Date(b.date).getTime() - new Date(a.date).getTime().    *)
(* The sort is stable: an element is placed after every element already    *)
(* placed that the comparator does not order after it.                     *)
(***************************************************************************)
compareDateDesc(a, b) == getTime(b.date) - getTime(a.date)

RECURSIVE InsertBeforeTies(_, _)
InsertBeforeTies(sorted, x) ==
    IF sorted = <<>> THEN <<x>>
    ELSE IF compareDateDesc(Head(sorted), x) < 0
         THEN <<Head(sorted)>> \o InsertBeforeTies(Tail(sorted), x)
         ELSE <<x>> \o sorted

RECURSIVE InsertSorted(_, _)
InsertSorted(sorted, x) ==
    IF sorted = <<>> THEN <<x>>
    ELSE IF compareDateDesc(Head(sorted), x) <= 0
         THEN <<Head(sorted)>> \o InsertSorted(Tail(sorted), x)
         ELSE <<x>> \o sorted

RECURSIVE SortLoop(_, _)
SortLoop(sorted, rest) ==
    IF rest = <<>> THEN sorted
    ELSE SortLoop(InsertSorted(sorted, Head(rest)), Tail(rest))

NoSort(list) == list

sortByDateDesc(list) == SortLoop(<<>>, list)

Range(list) == {list[i] : i \in DOMAIN list}

(***************************************************************************)
(* The application state holder (App.tsx, second listing).                 *)
(***************************************************************************)
EXPENSES_KEY == "@MyKakeiboApp:expenses"
BUDGETS_KEY == "@MyKakeiboApp:budgets"
CATEGORIES_KEY == "@MyKakeiboApp:categories"
Keys == {EXPENSES_KEY, BUDGETS_KEY, CATEGORIES_KEY}

DEFAULT_CATEGORIES ==
    << <<"shoku", "hi">>, <<"kou", "tsuu", "hi">>, <<"nichi", "you", "hin">>,
       <<"go", "raku">>, <<"kou", "sai", "hi">>, <<"ji", "ko", "tou", "shi">>,
       <<"juu", "kyo", "hi">>, <<"mi", "bun", "rui">> >>

Food == DEFAULT_CATEGORIES[1]
Transport == DEFAULT_CATEGORIES[2]
EatingOut == <<"gai", "shoku">>

\* A stored string: absent (getItem gives null), the JSON text of a value, or
\* text that JSON.parse rejects.
Null == [kind |-> "null"]
Malformed == [kind |-> "malformed"]
stringify(value) == [kind |-> "json", value |-> value]
parses(text) == text.kind = "json"
parse(text) == text.value

\* The record handleAddExpense builds from its argument.
newExpense(expense) ==
    [id |-> ToString(now),
     amount |-> expense.amount,
     category |-> expense.category,
     memo |-> expense.memo,
     date |-> toISODate(expense.date)]

\* prev => [newExpense, ...prev].sort(...)
addExpenseUpdater(prev, e) == sortByDateDesc(<<e>> \o prev)

mapOrAppend(prev, updatedExpense) ==
    LET hits == {i \in DOMAIN prev : prev[i].id = updatedExpense.id}
    IN  IF hits = {} THEN Append(prev, updatedExpense)
        ELSE [i \in DOMAIN prev |->
                 IF prev[i].id = updatedExpense.id THEN updatedExpense ELSE prev[i]]

\* prev => prev.map(e => e.id === updatedExpense.id ? updatedExpense : e)
updateExpenseUpdater(prev, updatedExpense) ==
    [i \in DOMAIN prev |->
        IF prev[i].id = updatedExpense.id THEN updatedExpense ELSE prev[i]]

filterKeepId(prev, id) ==
    LET Keep(e) == e.id = id IN SelectSeq(prev, Keep)

\* prev => prev.filter(e => e.id !== id)
deleteExpenseUpdater(prev, id) ==
    LET Keep(e) == e.id # id IN SelectSeq(prev, Keep)

\* prev.findIndex(b => b.category === budget.category), 1-based, 0 for -1
findIndex(prev, category) ==
    IF \E i \in DOMAIN prev : prev[i].category = category
    THEN CHOOSE i \in DOMAIN prev :
             /\ prev[i].category = category
             /\ \A j \in DOMAIN prev : prev[j].category = category => i <= j
    ELSE 0

alwaysAppend(prev, budget) == Append(prev, budget)

\* the updater of handleSetBudget
setBudgetUpdater(prev, budget) ==
    LET existingIndex == findIndex(prev, budget.category)
    IN  IF existingIndex > 0
        THEN [prev EXCEPT ![existingIndex] = budget]
        ELSE Append(prev, budget)

\* prev => [...prev, category]
addCategoryUpdater(prev, category) == Append(prev, category)

\* prev => prev.filter(c => c !== category)
deleteCategoryUpdater(prev, category) ==
    LET Keep(c) == c # category IN SelectSeq(prev, Keep)

handleAddExpense(expense) ==
    /\ expenses' = addExpenseUpdater(expenses, newExpense(expense))
    /\ UNCHANGED <<budgets, categories>>

handleUpdateExpense(updatedExpense) ==
    /\ expenses' = updateExpenseUpdater(expenses, updatedExpense)
    /\ UNCHANGED <<budgets, categories>>

handleDeleteExpense(id) ==
    /\ expenses' = deleteExpenseUpdater(expenses, id)
    /\ UNCHANGED <<budgets, categories>>

handleSetBudget(budget) ==
    /\ budgets' = setBudgetUpdater(budgets, budget)
    /\ UNCHANGED <<expenses, categories>>

handleAddCategory(category) ==
    /\ categories' = addCategoryUpdater(categories, category)
    /\ UNCHANGED <<expenses, budgets>>

handleDeleteCategoryCascade(category) ==
    /\ categories' = deleteCategoryUpdater(categories, category)
    /\ expenses' = SelectSeq(expenses, LAMBDA e : e.category # category)
    /\ budgets' = SelectSeq(budgets, LAMBDA b : b.category # category)

handleDeleteCategory(category) ==
    /\ categories' = deleteCategoryUpdater(categories, category)
    /\ UNCHANGED <<expenses, budgets>>

(***************************************************************************)
(* Callbacks invoked one after another before App renders again: each      *)
(* setter call puts its updater in the queue of its state, and the next    *)
(* render gives every updater of a queue, in the order of the calls, the   *)
(* state the updater before it returned.  A call is written with the name  *)
(* of its mutation and the argument its updater closes over.               *)
(***************************************************************************)
applyUpdate(state, call) ==
    CASE call.op = "addExpense" ->
             [state EXCEPT !.expenses = addExpenseUpdater(@, call.arg)]
      [] call.op = "updateExpense" ->
             [state EXCEPT !.expenses = updateExpenseUpdater(@, call.arg)]
      [] call.op = "deleteExpense" ->
             [state EXCEPT !.expenses = deleteExpenseUpdater(@, call.arg)]
      [] call.op = "upsertBudget" ->
             [state EXCEPT !.budgets = setBudgetUpdater(@, call.arg)]
      [] call.op = "addCategory" ->
             [state EXCEPT !.categories = addCategoryUpdater(@, call.arg)]
      [] call.op = "removeCategory" ->
             [state EXCEPT !.categories = deleteCategoryUpdater(@, call.arg)]

RECURSIVE processOnRendered(_, _)
processOnRendered(state, queue) ==
    IF queue = <<>> THEN state
    ELSE LET rest == processOnRendered(state, Tail(queue))
             done == applyUpdate(state, Head(queue))
         IN  [expenses |-> IF rest.expenses # state.expenses
                           THEN rest.expenses ELSE done.expenses,
              budgets |-> IF rest.budgets # state.budgets
                          THEN rest.budgets ELSE done.budgets,
              categories |-> IF rest.categories # state.categories
                             THEN rest.categories ELSE done.categories]

RECURSIVE processUpdateQueue(_, _)
processUpdateQueue(state, queue) ==
    IF queue = <<>> THEN state
    ELSE processUpdateQueue(applyUpdate(state, Head(queue)), Tail(queue))

(***************************************************************************)
(* AnalysisScreen (src/src/AnalysisScreen.tsx): the month key, the totals  *)
(* of the current month and the progress of each budget.                   *)
(*                                                                         *)
(* totals is a plain object used as a map from category to number.  A      *)
(* value read from it is a number, undefined, or, for a key that           *)
(* Object.prototype defines ("constructor", "toString", ...) and the       *)
(* object does not, the inherited function; adding a number to a function  *)
(* or to a string concatenates and gives a string.  A value is written     *)
(* with its type, and a number with its value.                             *)
(***************************************************************************)
Num(n) == [type |-> "number", value |-> n]
Undefined == [type |-> "undefined"]
Inherited == [type |-> "function"]
Str == [type |-> "string"]
NaN == [type |-> "NaN"]

isNumber(v) == v.type = "number"

Constructor == <<"c", "o", "n", "s", "t", "r", "u", "c", "t", "o", "r">>

\* Names every object inherits from Object.prototype (two of them).
ObjectPrototypeKeys ==
    {Constructor, <<"t", "o", "S", "t", "r", "i", "n", "g">>}

\* obj[key]
lookup(obj, key) ==
    IF key \in DOMAIN obj THEN obj[key]
    ELSE IF key \in ObjectPrototypeKeys THEN Inherited
    ELSE Undefined

\* v || 0
orZero(v) ==
    IF \/ v.type \in {"undefined", "NaN"}
       \/ v.type = "number" /\ v.value = 0
    THEN Num(0)
    ELSE v

\* v + amount, amount a number
plus(v, amount) ==
    IF v.type = "NaN" THEN NaN
    ELSE IF isNumber(v) THEN Num(v.value + amount)
    ELSE Str

\* obj[key] = v
assign(obj, key, v) ==
    [k \in DOMAIN obj \cup {key} |-> IF k = key THEN v ELSE obj[k]]

\* The zone's offset from UTC when currentYearMonth is computed, in ticks
\* east: getFullYear and getMonth read local time.
TimeZoneOffsets == {-1, 0, 1}

\* `${now.getFullYear()}-${(now.getMonth() + 1).toString().padStart(2, '0')}`
\* the year and month fields of the key "YYYY-MM"
yearMonth(instant, offset) ==
    LET local == CivilFromDays((instant + offset) \div TicksPerDay)
    IN  <<local[1], local[2]>>

\* expense.date.startsWith(currentYearMonth): the year and month fields of
\* "YYYY-MM-DD" are those of the key
startsWith(date, key) == date[1] = key[1] /\ date[2] = key[2]

Unclassified == DEFAULT_CATEGORIES[8]

\* the body of monthlyExpenses.forEach
forEachBody(acc, expense) ==
    LET cat == IF expense.category # <<>> THEN expense.category
               ELSE Unclassified
    IN  [totals |-> assign(acc.totals, cat,
                           plus(orZero(lookup(acc.totals, cat)), expense.amount)),
         monthlyTotal |-> acc.monthlyTotal + expense.amount]

RECURSIVE forEach(_, _)
forEach(acc, list) ==
    IF list = <<>> THEN acc
    ELSE forEach(forEachBody(acc, Head(list)), Tail(list))

\* monthlyAnalysis (chartData carries the same totals and is left out)
monthlyAnalysis(list, currentYearMonth) ==
    LET InMonth(expense) == startsWith(expense.date, currentYearMonth)
        monthlyExpenses == SelectSeq(list, InMonth)
        result == forEach([totals |-> <<>>, monthlyTotal |-> 0], monthlyExpenses)
    IN  [monthlyTotal |-> result.monthlyTotal, categoryTotals |-> result.totals]

\* spent / budget.amount as the fraction <<numerator, denominator>>, and
\* the comparisons progress > 1 and progress > 0.8.  The quotient of two
\* integers below 2^51 rounds to a double above 0.8 exactly when the
\* fraction is above 4/5, and 800/1000 rounds to the double 0.8 itself.
divide(v, amount) ==
    IF isNumber(v) THEN [type |-> "fraction", value |-> <<v.value, amount>>]
    ELSE NaN

greaterThan(progress, fraction) ==
    /\ progress.type = "fraction"
    /\ progress.value[1] * fraction[2] > fraction[1] * progress.value[2]

minus(amount, v) == IF isNumber(v) THEN Num(amount - v.value) ELSE NaN

\* renderBudgetProgress: what the card shows
renderBudgetProgress(budget, categoryTotals) ==
    LET spent == orZero(lookup(categoryTotals, budget.category))
        progress == IF budget.amount > 0 THEN divide(spent, budget.amount)
                    ELSE [type |-> "fraction", value |-> <<0, 1>>]
        progressColor == IF greaterThan(progress, <<1, 1>>) THEN "error"
                         ELSE IF greaterThan(progress, <<4, 5>>) THEN "orange"
                         ELSE "#4CAF50"
        remaining == minus(budget.amount, spent)
    IN  [category |-> budget.category, amount |-> budget.amount,
         spent |-> spent, progress |-> progress,
         progressColor |-> progressColor, remaining |-> remaining]

\* What a render of the screen computes from the props and the month key.
analysisRender(list, budgetList, currentYearMonth) ==
    LET analysis == monthlyAnalysis(list, currentYearMonth)
    IN  [mounted |-> TRUE,
         currentYearMonth |-> currentYearMonth,
         monthlyTotal |-> analysis.monthlyTotal,
         categoryTotals |-> analysis.categoryTotals,
         budgetProgress |->
             [i \in DOMAIN budgetList |->
                 renderBudgetProgress(budgetList[i], analysis.categoryTotals)]]

\* App has rendered with new collections: the analysis screen, once
\* created, is rendered with them (its month key is kept).
rerenderAnalysis ==
    analysisScreen' =
        IF analysisScreen.mounted
        THEN analysisRender(expenses', budgets', analysisScreen.currentYearMonth)
        ELSE analysisScreen

rendersAlways == TRUE

\* App renders the navigator, and with it every screen and callback, only
\* when isLoading is false; otherwise it returns the loading view.
screensRendered == ~isLoading

effectIgnoresLoading(e, b, c, loading) ==
    << [key |-> EXPENSES_KEY, value |-> stringify(e)],
       [key |-> BUDGETS_KEY, value |-> stringify(b)],
       [key |-> CATEGORIES_KEY, value |-> stringify(c)] >>

effectSkipsCategories(e, b, c, loading) ==
    IF loading THEN <<>>
    ELSE << [key |-> EXPENSES_KEY, value |-> stringify(e)],
            [key |-> BUDGETS_KEY, value |-> stringify(b)] >>

\* The save effect, run after a render in which expenses, budgets,
\* categories or isLoading changed: the setItem calls it issues.
saveEffect(e, b, c, loading) ==
    IF loading THEN <<>>
    ELSE << [key |-> EXPENSES_KEY, value |-> stringify(e)],
            [key |-> BUDGETS_KEY, value |-> stringify(b)],
            [key |-> CATEGORIES_KEY, value |-> stringify(c)] >>

\* The history record of a step.
History(op, arg, issued) ==
    [op |-> op, arg |-> arg, issued |-> issued,
     expenses |-> expenses, budgets |-> budgets, categories |-> categories,
     isLoading |-> isLoading]

\* A state setter was called: React renders App with the new state and runs
\* the save effect, whose dependencies have changed (every updater returns
\* a new array).
Commit(op, arg) ==
    LET issued == saveEffect(expenses', budgets', categories', isLoading')
    IN  /\ writes' = writes \o issued
        /\ landing' = [landing EXCEPT
                           !.overtaken = @ \o [i \in DOMAIN issued |-> FALSE]]
        /\ last' = History(op, arg, issued)

MutationUnsaved(op, arg, inFlight) ==
    /\ screensRendered
    /\ Len(writes) + 3 <= inFlight
    /\ UNCHANGED <<isLoading, loadVars, storeVars, now>>
    /\ rerenderAnalysis
    /\ last' = History(op, arg, <<>>)

\* A callback is invoked from a screen and its state update is committed;
\* the model follows it while at most inFlight writes are in flight.
MutationWithin(op, arg, inFlight) ==
    /\ screensRendered
    /\ Len(writes) + 3 <= inFlight
    /\ UNCHANGED <<isLoading, loadVars, store, rejections, now>>
    /\ rerenderAnalysis
    /\ Commit(op, arg)

Mutation(op, arg) == MutationWithin(op, arg, MaxInFlight)

\* The same, projected on the in-memory collections: the save effect reads
\* them and never writes them, and the store is left out.
MemMutation(op, arg) ==
    /\ screensRendered
    /\ rerenderAnalysis
    /\ last' = History(op, arg, <<>>)
    /\ UNCHANGED <<isLoading, loadVars, storeVars, now>>

(***************************************************************************)
(* loadData (App.tsx:272-289): three awaited reads, then the parses and    *)
(* the setters in one synchronous run; any rejection or parse error goes   *)
(* to the catch, and the finally clears isLoading.                         *)
(***************************************************************************)
truthy(text) == text # Null

loadFinallyInTry(op, arg) ==
    /\ isLoading' = (op # "loadData")
    /\ loadPc' = "done"
    /\ Commit(op, arg)
    /\ UNCHANGED <<store, rejections, now, uiVars>>

loadFinally(op, arg) ==
    /\ isLoading' = FALSE
    /\ loadPc' = "done"
    /\ Commit(op, arg)
    /\ UNCHANGED <<store, rejections, now, uiVars>>

loadAwait(pc, key, field, next) ==
    /\ loadPc = pc
    /\ \/ /\ stored' = [stored EXCEPT ![field] = store[key]]
          /\ loadPc' = next
          /\ last' = History("getItem", key, <<>>)
          /\ UNCHANGED <<appVars, storeVars, now, uiVars>>
       \/ /\ UNCHANGED <<expenses, budgets, categories, stored>>
          /\ loadFinally("getItemRejected", key)

\* The first render of App (the loading view) and its effects: loadData is
\* called and runs up to its first await, and the save effect runs.
mount ==
    /\ loadPc = "mount"
    /\ loadPc' = "getExpenses"
    /\ UNCHANGED <<appVars, stored, store, rejections, now, uiVars>>
    /\ Commit("mount", <<>>)

loadGetExpenses == loadAwait("getExpenses", EXPENSES_KEY, "e", "getBudgets")

loadGetBudgets == loadAwait("getBudgets", BUDGETS_KEY, "b", "getCategories")

loadGetCategories == loadAwait("getCategories", CATEGORIES_KEY, "c", "parse")

loadParse ==
    /\ loadPc = "parse"
    /\ LET okE == ~truthy(stored.e) \/ parses(stored.e)
           okB == okE /\ (~truthy(stored.b) \/ parses(stored.b))
       IN  /\ expenses' = IF truthy(stored.e) /\ parses(stored.e)
                          THEN parse(stored.e) ELSE expenses
           /\ budgets' = IF okE /\ truthy(stored.b) /\ parses(stored.b)
                         THEN parse(stored.b) ELSE budgets
           /\ categories' = IF okB /\ truthy(stored.c) /\ parses(stored.c)
                            THEN parse(stored.c) ELSE categories
    /\ UNCHANGED stored
    /\ loadFinally("loadData", stored)

(***************************************************************************)
(* AsyncStorage.setItem in flight: it resolves, and the store holds the    *)
(* value, or it rejects, and the .catch logs the error.  Calls in flight   *)
(* complete in any order.                                                  *)
(***************************************************************************)
RemoveAt(list, i) == SubSeq(list, 1, i - 1) \o SubSeq(list, i + 1, Len(list))

setItemResolvesNewestWins ==
    \E i \in DOMAIN writes :
        /\ store' = IF landing.overtaken[i] THEN store
                    ELSE [store EXCEPT ![writes[i].key] = writes[i].value]
        /\ writes' = RemoveAt(writes, i)
        /\ landing' =
               [overtaken |->
                    RemoveAt([j \in DOMAIN writes |->
                                 \/ landing.overtaken[j]
                                 \/ j < i /\ writes[j].key = writes[i].key], i),
                resolved |->
                    [landing.resolved EXCEPT
                        ![writes[i].key] = [value |-> writes[i].value,
                                            overtaken |-> landing.overtaken[i]]]]
        /\ last' = History("setItemResolved", writes[i], <<>>)
        /\ UNCHANGED <<appVars, loadVars, rejections, now, uiVars>>

setItemResolves ==
    \E i \in DOMAIN writes :
        /\ store' = [store EXCEPT ![writes[i].key] = writes[i].value]
        /\ writes' = RemoveAt(writes, i)
        /\ landing' =
               [overtaken |->
                    RemoveAt([j \in DOMAIN writes |->
                                 \/ landing.overtaken[j]
                                 \/ j < i /\ writes[j].key = writes[i].key], i),
                resolved |->
                    [landing.resolved EXCEPT
                        ![writes[i].key] = [value |-> writes[i].value,
                                            overtaken |-> landing.overtaken[i]]]]
        /\ last' = History("setItemResolved", writes[i], <<>>)
        /\ UNCHANGED <<appVars, loadVars, rejections, now, uiVars>>

setItemRejectsAndRetries ==
    \E i \in DOMAIN writes :
        /\ rejections < MaxRejections
        /\ rejections' = rejections + 1
        /\ writes' = Append(RemoveAt(writes, i), writes[i])
        /\ landing' = [landing EXCEPT
                           !.overtaken = Append(RemoveAt(@, i), @[i])]
        /\ last' = History("setItemRejected", writes[i], <<>>)
        /\ UNCHANGED <<appVars, loadVars, store, now, uiVars>>

setItemRejects ==
    \E i \in DOMAIN writes :
        /\ rejections < MaxRejections
        /\ rejections' = rejections + 1
        /\ writes' = RemoveAt(writes, i)
        /\ landing' = [landing EXCEPT !.overtaken = RemoveAt(@, i)]
        /\ last' = History("setItemRejected", writes[i], <<>>)
        /\ UNCHANGED <<appVars, loadVars, store, now, uiVars>>

(***************************************************************************)
(* The clock.                                                              *)
(***************************************************************************)
StartNow == StartDay * TicksPerDay

\* The clock advances, followed for maxTicks ticks.
TickWithin(maxTicks) ==
    /\ now < StartNow + maxTicks
    /\ now' = now + 1
    /\ last' = History("tick", now, <<>>)
    /\ UNCHANGED <<appVars, loadVars, storeVars, uiVars>>

Tick == TickWithin(MaxTicks)

(***************************************************************************)
(* SettingsScreen (src/src/SettingsScreen.tsx).                            *)
(***************************************************************************)
WhiteSpace == {" ", "ideographic space"}

RECURSIVE trimStart(_)
trimStart(text) ==
    IF text # <<>> /\ Head(text) \in WhiteSpace THEN trimStart(Tail(text))
    ELSE text

RECURSIVE trimEnd(_)
trimEnd(text) ==
    IF text # <<>> /\ text[Len(text)] \in WhiteSpace
    THEN trimEnd(SubSeq(text, 1, Len(text) - 1))
    ELSE text

\* String.prototype.trim
trim(text) == trimEnd(trimStart(text))

includesNever(list, name) == FALSE

\* categories.includes(name)
includes(list, name) == \E i \in DOMAIN list : list[i] = name

\* onChangeText={setNewCategory}
setNewCategory(text) ==
    /\ screensRendered
    /\ newCategory # text
    /\ newCategory' = text
    /\ UNCHANGED <<inputForm, budgetForm, analysisScreen, editDialog>>
    /\ last' = History("setNewCategory", text, <<>>)
    /\ UNCHANGED <<appVars, loadVars, storeVars, now>>

\* An alert is shown and the handler returns.
alert(op, arg) ==
    /\ screensRendered
    /\ last' = History(op, arg, <<>>)
    /\ UNCHANGED <<appVars, loadVars, storeVars, now, uiVars>>

\* handleAdd up to the call of onAddCategory: the rejected submissions.
handleAddRejected ==
    /\ \/ trim(newCategory) = <<>>
       \/ includes(categories, trim(newCategory))
    /\ alert("handleAddRejected", newCategory)

\* handleAdd, the accepted submission: onAddCategory(newCategory.trim()) and
\* setNewCategory('').
handleAdd ==
    /\ trim(newCategory) # <<>>
    /\ ~includes(categories, trim(newCategory))
    /\ handleAddCategory(trim(newCategory))
    /\ newCategory' = <<>>
    /\ UNCHANGED <<inputForm, budgetForm, editDialog>>

\* handleDelete and the confirmation: onDeleteCategory(category) for a
\* category of the list shown.
handleDelete(category) ==
    /\ includes(categories, category)
    /\ handleDeleteCategory(category)
    /\ UNCHANGED formVars

(***************************************************************************)
(* AnalysisScreen: a visit to its tab.                                     *)
(***************************************************************************)
\* The analysis tab is opened: the screen is created (currentYearMonth is
\* computed once, by useMemo with no dependencies) or shown again, and
\* rendered with the current expenses and budgets.
visitAnalysisTab ==
    /\ screensRendered
    /\ \E offset \in TimeZoneOffsets :
           analysisScreen' =
               analysisRender(expenses, budgets,
                              IF analysisScreen.mounted
                              THEN analysisScreen.currentYearMonth
                              ELSE yearMonth(now, offset))
    /\ analysisScreen' # analysisScreen
    /\ last' = History("renderAnalysis", analysisScreen'.currentYearMonth, <<>>)
    /\ UNCHANGED <<appVars, loadVars, storeVars, now>>
    /\ UNCHANGED <<newCategory, inputForm, budgetForm, editDialog>>

(***************************************************************************)
(* The state the other screens are created with.  The input screen is the  *)
(* first tab and is created, with date = new Date(), when the loading view *)
(* goes; the analysis screen is created on the first visit to its tab.     *)
(***************************************************************************)
InputFormInitial ==
    [amountInput |-> <<>>, category |-> <<>>, memo |-> <<>>, date |-> now]

BudgetFormInitial == [budgetCategory |-> <<>>, budgetAmountInput |-> <<>>]

Unmounted == [mounted |-> FALSE]

EditDialogInitial ==
    [visible |-> FALSE, editId |-> <<>>, editAmount |-> <<>>,
     editMemo |-> <<>>, editCategory |-> <<>>, editDate |-> <<>>]

(***************************************************************************)
(* InputScreen (src/src/InputScreen.tsx).                                  *)
(***************************************************************************)
Letters == [upper |-> <<"A", "B", "C", "S">>, lower |-> <<"a", "b", "c", "s">>]

\* String.prototype.toLowerCase: the letters of Letters.upper have a lower
\* case, kana and kanji have none.
toLowerCase(text) ==
    [i \in DOMAIN text |->
        IF \E k \in DOMAIN Letters.upper : Letters.upper[k] = text[i]
        THEN Letters.lower[CHOOSE k \in DOMAIN Letters.upper :
                               Letters.upper[k] = text[i]]
        ELSE text[i]]

\* String.prototype.includes
stringIncludes(text, keyword) ==
    \E i \in 1 .. Len(text) - Len(keyword) + 1 :
        SubSeq(text, i, i + Len(keyword) - 1) = keyword

\* The keywords of getCategoryFromMemo, a character each as its reading.
Keyword ==
    [shoku |-> <<"shoku">>,
     konbini |-> <<"katakana ko", "katakana n", "katakana bi", "katakana ni">>,
     suupaa |-> <<"katakana su", "prolonged sound mark",
                  "katakana pa", "prolonged sound mark">>,
     densha |-> <<"den", "sha">>,
     basu |-> <<"katakana ba", "katakana su">>,
     takushii |-> <<"katakana ta", "katakana ku", "katakana shi",
                    "prolonged sound mark">>,
     kusuri |-> <<"kusuri">>,
     nichiyouhin |-> <<"nichi", "you", "hin">>,
     geemu |-> <<"katakana ge", "prolonged sound mark", "katakana mu">>,
     shumi |-> <<"shu", "aji">>,
     yachin |-> <<"ie", "chin">>,
     denki |-> <<"den", "ki">>]


\* The null that getCategoryFromMemo returns, written as the empty string:
\* both are falsy and the function returns no empty string.
NoCategory == <<>>

transportFirst(memo) ==
    LET lowerMemo == toLowerCase(memo)
    IN  IF \/ stringIncludes(lowerMemo, Keyword.densha)
           \/ stringIncludes(lowerMemo, Keyword.basu)
           \/ stringIncludes(lowerMemo, Keyword.takushii) THEN Transport
        ELSE IF \/ stringIncludes(lowerMemo, Keyword.shoku)
                \/ stringIncludes(lowerMemo, Keyword.konbini)
                \/ stringIncludes(lowerMemo, Keyword.suupaa) THEN Food
        ELSE IF \/ stringIncludes(lowerMemo, Keyword.kusuri)
                \/ stringIncludes(lowerMemo, Keyword.nichiyouhin) THEN DEFAULT_CATEGORIES[3]
        ELSE IF \/ stringIncludes(lowerMemo, Keyword.geemu)
                \/ stringIncludes(lowerMemo, Keyword.shumi) THEN DEFAULT_CATEGORIES[4]
        ELSE IF \/ stringIncludes(lowerMemo, Keyword.yachin)
                \/ stringIncludes(lowerMemo, Keyword.denki) THEN DEFAULT_CATEGORIES[7]
        ELSE NoCategory

getCategoryFromMemo(memo) ==
    LET lowerMemo == toLowerCase(memo)
    IN  IF \/ stringIncludes(lowerMemo, Keyword.shoku)
           \/ stringIncludes(lowerMemo, Keyword.konbini)
           \/ stringIncludes(lowerMemo, Keyword.suupaa) THEN Food
        ELSE IF \/ stringIncludes(lowerMemo, Keyword.densha)
                \/ stringIncludes(lowerMemo, Keyword.basu)
                \/ stringIncludes(lowerMemo, Keyword.takushii) THEN Transport
        ELSE IF \/ stringIncludes(lowerMemo, Keyword.kusuri)
                \/ stringIncludes(lowerMemo, Keyword.nichiyouhin) THEN DEFAULT_CATEGORIES[3]
        ELSE IF \/ stringIncludes(lowerMemo, Keyword.geemu)
                \/ stringIncludes(lowerMemo, Keyword.shumi) THEN DEFAULT_CATEGORIES[4]
        ELSE IF \/ stringIncludes(lowerMemo, Keyword.yachin)
                \/ stringIncludes(lowerMemo, Keyword.denki) THEN DEFAULT_CATEGORIES[7]
        ELSE NoCategory

\* A handler of a screen that changes that screen's state only.
formEvent(op, arg) ==
    /\ screensRendered
    /\ last' = History(op, arg, <<>>)
    /\ UNCHANGED <<appVars, loadVars, storeVars, now>>

memoChangeAlways(text) ==
    LET suggestedCategory == getCategoryFromMemo(text)
    IN  /\ inputForm' =
               [inputForm EXCEPT
                   !.memo = text,
                   !.category = IF suggestedCategory # NoCategory
                                THEN suggestedCategory ELSE @]
        /\ inputForm' # inputForm
        /\ UNCHANGED <<newCategory, budgetForm, analysisScreen, editDialog>>
        /\ formEvent("memoChange",
                     [text |-> text, suggestedCategory |-> suggestedCategory])

handleMemoChange(text) ==
    LET suggestedCategory == getCategoryFromMemo(text)
    IN  /\ inputForm' =
               [inputForm EXCEPT
                   !.memo = text,
                   !.category = IF /\ suggestedCategory # NoCategory
                                   /\ includes(categories, suggestedCategory)
                                   /\ inputForm.category = <<>>
                                THEN suggestedCategory ELSE @]
        /\ inputForm' # inputForm
        /\ UNCHANGED <<newCategory, budgetForm, analysisScreen, editDialog>>
        /\ formEvent("memoChange",
                     [text |-> text, suggestedCategory |-> suggestedCategory])

\* onChangeText={setAmountInput}
setAmountInput(text) ==
    /\ inputForm.amountInput # text
    /\ inputForm' = [inputForm EXCEPT !.amountInput = text]
    /\ UNCHANGED <<newCategory, budgetForm, analysisScreen, editDialog>>
    /\ formEvent("setAmountInput", text)

\* The category dialog lists the current categories; one is pressed.
handleCategorySelect(selectedCat) ==
    /\ includes(categories, selectedCat)
    /\ inputForm.category # selectedCat
    /\ inputForm' = [inputForm EXCEPT !.category = selectedCat]
    /\ UNCHANGED <<newCategory, budgetForm, analysisScreen, editDialog>>
    /\ formEvent("categorySelect", selectedCat)

\* onChangeDate with a date selected in the picker
onChangeDate(selectedDate) ==
    /\ inputForm.date # selectedDate
    /\ inputForm' = [inputForm EXCEPT !.date = selectedDate]
    /\ UNCHANGED <<newCategory, budgetForm, analysisScreen, editDialog>>
    /\ formEvent("changeDate", selectedDate)

digitValue(ch) == CHOOSE d \in 0 .. 9 : Digits[d + 1] = ch

RECURSIVE parseDigits(_, _)
parseDigits(text, value) ==
    IF text # <<>> /\ Head(text) \in Range(Digits)
    THEN parseDigits(Tail(text), 10 * value + digitValue(Head(text)))
    ELSE value

\* parseInt(text, 10): leading white space is skipped, a sign and the
\* longest prefix of digits are read, anything after them is ignored; NaN
\* when there is no digit to read.
parseInt(text) ==
    LET trimmed == trimStart(text)
        signed == trimmed # <<>> /\ Head(trimmed) \in {"+", "-"}
        digits == IF signed THEN Tail(trimmed) ELSE trimmed
    IN  IF digits = <<>> \/ Head(digits) \notin Range(Digits) THEN NaN
        ELSE IF signed /\ Head(trimmed) = "-" THEN Num(0 - parseDigits(digits, 0))
        ELSE Num(parseDigits(digits, 0))

isNaN(v) == v.type = "NaN"

amountAccepted(numAmount) == ~isNaN(numAmount)

\* !(isNaN(numAmount) || numAmount <= 0)
amountValid(numAmount) == ~isNaN(numAmount) /\ numAmount.value > 0

\* handlePress up to the call of onAddExpense: the rejected submissions.
handlePressRejected ==
    /\ \/ ~amountValid(parseInt(inputForm.amountInput))
       \/ trim(inputForm.category) = <<>>
    /\ alert("handlePressRejected", inputForm)

handlePressAnyCategory ==
    /\ amountValid(parseInt(inputForm.amountInput))
    /\ handleAddExpense([amount |-> parseInt(inputForm.amountInput).value,
                         category |-> inputForm.category,
                         memo |-> inputForm.memo,
                         date |-> inputForm.date])
    /\ inputForm' = InputFormInitial
    /\ UNCHANGED <<newCategory, budgetForm, editDialog>>

\* handlePress, the accepted submission: onAddExpense and the reset of the
\* form.
handlePress ==
    /\ amountValid(parseInt(inputForm.amountInput))
    /\ trim(inputForm.category) # <<>>
    /\ handleAddExpense([amount |-> parseInt(inputForm.amountInput).value,
                         category |-> inputForm.category,
                         memo |-> inputForm.memo,
                         date |-> inputForm.date])
    /\ inputForm' = InputFormInitial
    /\ UNCHANGED <<newCategory, budgetForm, editDialog>>

(***************************************************************************)
(* The budget form of AnalysisScreen (src/src/AnalysisScreen.tsx:79-93).   *)
(* The form is part of the analysis screen and exists once that screen     *)
(* has been created.                                                       *)
(***************************************************************************)
\* onChangeText={setBudgetCategory}
setBudgetCategory(text) ==
    /\ analysisScreen.mounted
    /\ budgetForm.budgetCategory # text
    /\ budgetForm' = [budgetForm EXCEPT !.budgetCategory = text]
    /\ UNCHANGED <<newCategory, inputForm, analysisScreen, editDialog>>
    /\ formEvent("setBudgetCategory", text)

\* onChangeText={setBudgetAmountInput}
setBudgetAmountInput(text) ==
    /\ analysisScreen.mounted
    /\ budgetForm.budgetAmountInput # text
    /\ budgetForm' = [budgetForm EXCEPT !.budgetAmountInput = text]
    /\ UNCHANGED <<newCategory, inputForm, analysisScreen, editDialog>>
    /\ formEvent("setBudgetAmountInput", text)

\* AnalysisScreen.handleSetBudget up to the call of onSetBudget: the
\* rejected submissions.
submitBudgetRejected ==
    /\ analysisScreen.mounted
    /\ \/ ~amountValid(parseInt(budgetForm.budgetAmountInput))
       \/ trim(budgetForm.budgetCategory) = <<>>
    /\ alert("submitBudgetRejected", budgetForm)

\* AnalysisScreen.handleSetBudget, the accepted submission: onSetBudget
\* with the trimmed category, and the reset of the form.
submitBudget ==
    /\ analysisScreen.mounted
    /\ amountValid(parseInt(budgetForm.budgetAmountInput))
    /\ trim(budgetForm.budgetCategory) # <<>>
    /\ handleSetBudget([category |-> trim(budgetForm.budgetCategory),
                        amount |-> parseInt(budgetForm.budgetAmountInput).value])
    /\ budgetForm' = BudgetFormInitial
    /\ UNCHANGED <<newCategory, inputForm, editDialog>>

(***************************************************************************)
(* HistoryScreen (src/unnamed/part_004): deletion and the edit dialog.     *)
(* The dialog is modal: while it is shown it covers the application.       *)
(***************************************************************************)
\* handleEdit(item) for an item of the list shown
handleEdit(item) ==
    /\ ~editDialog.visible
    /\ editDialog' = [visible |-> TRUE,
                      editId |-> item.id,
                      editAmount |-> ToString(item.amount),
                      editMemo |-> item.memo,
                      editCategory |-> item.category,
                      editDate |-> item.date]
    /\ UNCHANGED <<newCategory, inputForm, budgetForm, analysisScreen>>
    /\ formEvent("handleEdit", item)

\* onChangeText={setEditAmount}
setEditAmount(text) ==
    /\ editDialog.visible
    /\ editDialog.editAmount # text
    /\ editDialog' = [editDialog EXCEPT !.editAmount = text]
    /\ UNCHANGED <<newCategory, inputForm, budgetForm, analysisScreen>>
    /\ formEvent("setEditAmount", text)

\* onChangeText={setEditMemo}
setEditMemo(text) ==
    /\ editDialog.visible
    /\ editDialog.editMemo # text
    /\ editDialog' = [editDialog EXCEPT !.editMemo = text]
    /\ UNCHANGED <<newCategory, inputForm, budgetForm, analysisScreen>>
    /\ formEvent("setEditMemo", text)

\* onDismiss and the cancel button: setVisible(false)
dismissEdit ==
    /\ editDialog.visible
    /\ editDialog' = [editDialog EXCEPT !.visible = FALSE]
    /\ UNCHANGED <<newCategory, inputForm, budgetForm, analysisScreen>>
    /\ formEvent("dismissEdit", <<>>)

\* handleSave up to the call of onUpdateExpense: the rejected submissions.
handleSaveRejected ==
    /\ editDialog.visible
    /\ ~amountValid(parseInt(editDialog.editAmount))
    /\ alert("handleSaveRejected", editDialog)

\* handleSave, the accepted submission: onUpdateExpense and
\* setVisible(false).
handleSave ==
    /\ editDialog.visible
    /\ amountValid(parseInt(editDialog.editAmount))
    /\ handleUpdateExpense([id |-> editDialog.editId,
                            amount |-> parseInt(editDialog.editAmount).value,
                            category |-> editDialog.editCategory,
                            memo |-> editDialog.editMemo,
                            date |-> editDialog.editDate])
    /\ editDialog' = [editDialog EXCEPT !.visible = FALSE]
    /\ UNCHANGED <<newCategory, inputForm, budgetForm>>

(***************************************************************************)
(* The calendar of HistoryScreen: the total of each date and the marks of  *)
(* the dates.  totals and marked are plain objects keyed by the date       *)
(* string; a date string "YYYY-MM-DD" is no name of Object.prototype, so a *)
(* date without an entry reads as undefined.                               *)
(***************************************************************************)
RECURSIVE totalByDate(_)
\* expenses.forEach(expense => {totals[dateStr] = (totals[dateStr] || 0) +
\* expense.amount})
totalByDate(list) ==
    IF list = <<>> THEN <<>>
    ELSE LET totals == totalByDate(SubSeq(list, 1, Len(list) - 1))
             expense == list[Len(list)]
             dateStr == expense.date
             read == IF dateStr \in DOMAIN totals THEN totals[dateStr]
                     ELSE Undefined
         IN  assign(totals, dateStr, plus(orZero(read), expense.amount))

markedDatesFrom5000(list, selectedDate) ==
    LET totals == totalByDate(list)
        marked == [dateStr \in DOMAIN totals |->
                      [marked |-> TRUE,
                       dotColor |-> IF /\ isNumber(totals[dateStr])
                                       /\ totals[dateStr].value >= 5000
                                    THEN "#d9534f" ELSE "#007aff",
                       selected |-> FALSE]]
    IN  [dateStr \in DOMAIN marked \cup {selectedDate} |->
            IF dateStr # selectedDate THEN marked[dateStr]
            ELSE IF dateStr \in DOMAIN marked
                 THEN [marked[dateStr] EXCEPT !.selected = TRUE]
                 ELSE [marked |-> FALSE, dotColor |-> "", selected |-> TRUE]]

\* markedDates: an entry of a date with expenses has marked: true and the
\* dot colour; the entry of the selected date has selected: true, and
\* neither marked nor dotColor when the date has no expense.
markedDates(list, selectedDate) ==
    LET totals == totalByDate(list)
        marked == [dateStr \in DOMAIN totals |->
                      [marked |-> TRUE,
                       dotColor |-> IF /\ isNumber(totals[dateStr])
                                       /\ totals[dateStr].value > 5000
                                    THEN "#d9534f" ELSE "#007aff",
                       selected |-> FALSE]]
    IN  [dateStr \in DOMAIN marked \cup {selectedDate} |->
            IF dateStr # selectedDate THEN marked[dateStr]
            ELSE IF dateStr \in DOMAIN marked
                 THEN [marked[dateStr] EXCEPT !.selected = TRUE]
                 ELSE [marked |-> FALSE, dotColor |-> "", selected |-> TRUE]]

\* onDayPress={day => setSelectedDate(day.dateString)} and the render that
\* follows: the calendar shows markedDates and the total of the day.
onDayPress(dateString) ==
    /\ UNCHANGED uiVars
    /\ formEvent("dayPress",
                 [selectedDate |-> dateString,
                  markedDates |-> markedDates(expenses, dateString),
                  totalByDate |-> totalByDate(expenses)])

(***************************************************************************)
(* What the user enters.                                                   *)
(***************************************************************************)
NewCategoryTexts ==
    {<<>>, <<" ">>, EatingOut, <<"ideographic space">> \o EatingOut \o <<" ">>,
     Food}

\* Dates the date picker can hand over: instants of the day before the
\* start, of the start day (two of them) and of the day after.
DateInputs ==
    {StartNow - TicksPerDay, StartNow, StartNow + 1, StartNow + TicksPerDay}

ExpenseInputs ==
    [amount : {1500}, category : {Food}, memo : {<<>>}, date : DateInputs]

\* Records handed to updateExpense: any identifier the clock can have
\* produced, with new field values.
UpdateInputs ==
    [id : {ToString(t) : t \in StartNow .. StartNow + MaxTicks},
     amount : {2000}, category : {Transport}, memo : {<<"x">>},
     date : {toISODate(t) : t \in {StartNow - TicksPerDay, StartNow + TicksPerDay}}]

BudgetInputs == [category : {Food, Transport, EatingOut}, amount : {10000, 20000}]

(***************************************************************************)
(* The application from a first launch: startup load, the screens'        *)
(* callbacks with the render and save effect that follow each, the store.  *)
(***************************************************************************)
\* What the store holds at a first launch: nothing under any key.
InitialStores == {[k \in Keys |-> Null]}

Init ==
    /\ expenses = <<>>
    /\ budgets = <<>>
    /\ categories = DEFAULT_CATEGORIES
    /\ isLoading = TRUE
    /\ loadPc = "getExpenses"
    /\ stored = [e |-> Null, b |-> Null, c |-> Null]
    /\ store \in InitialStores
    /\ writes = <<>>
    /\ rejections = 0
    /\ landing = [overtaken |-> <<>>,
                  resolved |-> [k \in Keys |-> [value |-> Null,
                                                overtaken |-> FALSE]]]
    /\ now = StartNow
    /\ newCategory = <<>>
    /\ inputForm = InputFormInitial
    /\ budgetForm = BudgetFormInitial
    /\ analysisScreen = Unmounted
    /\ editDialog = EditDialogInitial
    /\ last = [op |-> "init", arg |-> <<>>, issued |-> <<>>,
               expenses |-> expenses, budgets |-> budgets,
               categories |-> categories, isLoading |-> isLoading]

AddExpense ==
    /\ Len(expenses) < MaxAppExpenses
    /\ LET expense == [amount |-> 1500, category |-> Food, memo |-> <<>>,
                       date |-> now]
       IN  /\ handleAddExpense(expense)
           /\ UNCHANGED formVars
           /\ Mutation("addExpense", expense)

\* The edit dialog of the history screen saves an expense of the list with
\* a new amount.
UpdateExpense ==
    \E i \in DOMAIN expenses :
        LET updatedExpense == [expenses[i] EXCEPT !.amount = 2000]
        IN  /\ handleUpdateExpense(updatedExpense)
            /\ UNCHANGED formVars
            /\ Mutation("updateExpense", updatedExpense)

DeleteExpense ==
    \E i \in DOMAIN expenses :
        /\ handleDeleteExpense(expenses[i].id)
        /\ UNCHANGED formVars
        /\ Mutation("deleteExpense", expenses[i].id)

SetBudget ==
    \E budget \in [category : {Food}, amount : {10000}] :
        /\ handleSetBudget(budget)
        /\ UNCHANGED formVars
        /\ Mutation("upsertBudget", budget)

SetNewCategory == \E text \in {<<>>, Food} : setNewCategory(text)

AddCategoryRejected == handleAddRejected

AddCategory == handleAdd /\ Mutation("addCategory", trim(newCategory))

DeleteCategory ==
    \E category \in {Food} :
        handleDelete(category) /\ Mutation("removeCategory", category)

Next ==
    \/ loadGetExpenses
    \/ loadGetBudgets
    \/ loadGetCategories
    \/ loadParse
    \/ setItemResolves
    \/ setItemRejects
    \/ AddExpense
    \/ UpdateExpense
    \/ DeleteExpense
    \/ SetBudget
    \/ SetNewCategory
    \/ AddCategoryRejected
    \/ AddCategory
    \/ DeleteCategory

Spec == Init /\ [][Next]_vars

(***************************************************************************)
(* The in-memory collections alone, from the state the application is in   *)
(* once a first launch has loaded an empty store and written its initial   *)
(* collections.  The callbacks are invoked with every argument of a set.   *)
(***************************************************************************)
InitLoaded ==
    /\ expenses = <<>>
    /\ budgets = <<>>
    /\ categories = DEFAULT_CATEGORIES
    /\ isLoading = FALSE
    /\ loadPc = "done"
    /\ stored = [e |-> Null, b |-> Null, c |-> Null]
    /\ store = [k \in Keys |-> IF k = CATEGORIES_KEY
                                THEN stringify(DEFAULT_CATEGORIES)
                                ELSE stringify(<<>>)]
    /\ writes = <<>>
    /\ rejections = 0
    /\ landing = [overtaken |-> <<>>,
                  resolved |-> [k \in Keys |-> [value |-> Null,
                                                overtaken |-> FALSE]]]
    /\ now = StartNow
    /\ newCategory = <<>>
    /\ inputForm = InputFormInitial
    /\ budgetForm = BudgetFormInitial
    /\ analysisScreen = Unmounted
    /\ editDialog = EditDialogInitial
    /\ last = [op |-> "init", arg |-> <<>>, issued |-> <<>>,
               expenses |-> expenses, budgets |-> budgets,
               categories |-> categories, isLoading |-> isLoading]

MemAddExpense ==
    \E expense \in ExpenseInputs :
        /\ Len(expenses) < MaxExpenses
        /\ handleAddExpense(expense)
        /\ UNCHANGED formVars
        /\ MemMutation("addExpense", expense)

MemUpdateExpense ==
    \E updatedExpense \in UpdateInputs :
        /\ handleUpdateExpense(updatedExpense)
        /\ UNCHANGED formVars
        /\ MemMutation("updateExpense", updatedExpense)

MemDeleteExpense ==
    \E t \in StartNow .. StartNow + MaxTicks :
        /\ handleDeleteExpense(ToString(t))
        /\ UNCHANGED formVars
        /\ MemMutation("deleteExpense", ToString(t))

NextExpenses ==
    \/ MemAddExpense
    \/ MemUpdateExpense
    \/ MemDeleteExpense
    \/ Tick

SpecExpenses == InitLoaded /\ [][NextExpenses]_vars

MemSetBudget ==
    \E budget \in BudgetInputs :
        /\ Len(budgets) < MaxBudgets
        /\ handleSetBudget(budget)
        /\ UNCHANGED formVars
        /\ MemMutation("upsertBudget", budget)

NextBudgets == MemSetBudget

SpecBudgets == InitLoaded /\ [][NextBudgets]_vars

MemSetNewCategory == \E text \in NewCategoryTexts : setNewCategory(text)

MemAddCategoryRejected == handleAddRejected

MemAddCategory == handleAdd /\ MemMutation("addCategory", trim(newCategory))

MemDeleteCategory ==
    \E category \in {Food, Transport, EatingOut} :
        handleDelete(category) /\ MemMutation("removeCategory", category)

NextSettings ==
    \/ MemSetNewCategory
    \/ MemAddCategoryRejected
    \/ MemAddCategory
    \/ MemDeleteCategory

SpecSettings == InitLoaded /\ [][NextSettings]_vars

(***************************************************************************)
(* A launch over what an earlier session, or anything else that writes the *)
(* three keys, left in the store: under each key nothing, the JSON text of *)
(* a collection, or text that is not JSON.  The startup load and the       *)
(* writes of the save effect that follows it, from the first render on.    *)
(***************************************************************************)
Previous ==
    [expenses |->
         << [id |-> ToString(StartNow - 1), amount |-> 1500, category |-> Food,
             memo |-> <<>>, date |-> toISODate(StartNow - TicksPerDay)] >>,
     budgets |-> << [category |-> Food, amount |-> 10000] >>,
     categories |-> Append(DEFAULT_CATEGORIES, EatingOut)]

LaunchStores ==
    {[k \in Keys |-> IF k = EXPENSES_KEY THEN e
                     ELSE IF k = BUDGETS_KEY THEN b ELSE c] :
        e \in {Null, Malformed, stringify(Previous.expenses)},
        b \in {Null, Malformed, stringify(Previous.budgets)},
        c \in {Null, Malformed, stringify(Previous.categories)}}

InitLaunch ==
    /\ expenses = <<>>
    /\ budgets = <<>>
    /\ categories = DEFAULT_CATEGORIES
    /\ isLoading = TRUE
    /\ loadPc = "mount"
    /\ stored = [e |-> Null, b |-> Null, c |-> Null]
    /\ store \in LaunchStores
    /\ writes = <<>>
    /\ rejections = 0
    /\ landing = [overtaken |-> <<>>,
                  resolved |-> [k \in Keys |-> [value |-> Null,
                                                overtaken |-> FALSE]]]
    /\ now = StartNow
    /\ newCategory = <<>>
    /\ inputForm = InputFormInitial
    /\ budgetForm = BudgetFormInitial
    /\ analysisScreen = Unmounted
    /\ editDialog = EditDialogInitial
    /\ last = [op |-> "init", arg |-> <<>>, issued |-> <<>>,
               expenses |-> expenses, budgets |-> budgets,
               categories |-> categories, isLoading |-> isLoading]

NextLoad ==
    \/ mount
    \/ loadGetExpenses
    \/ loadGetBudgets
    \/ loadGetCategories
    \/ loadParse
    \/ setItemResolves
    \/ setItemRejects

SpecLoad == InitLaunch /\ [][NextLoad]_vars

\* The same when every getItem settles, resolved or rejected, and the
\* continuation of loadData runs when it has.
SpecLoadFair ==
    /\ SpecLoad
    /\ WF_vars(mount \/ loadGetExpenses \/ loadGetBudgets \/ loadGetCategories
                   \/ loadParse)

(***************************************************************************)
(* The analysis screen over the expenses and budgets a load can have put   *)
(* in memory: it is opened at some clock reading in some time zone, and    *)
(* stays open while the clock goes on and expenses are deleted.            *)
(***************************************************************************)
AnalysisExpenses ==
    {[id |-> ToString(StartNow - 1), amount |-> r[1], category |-> r[2],
      memo |-> <<>>, date |-> toISODate(r[3])] :
        r \in {<<800, Food, StartNow + TicksPerDay>>,
               <<200, Food, StartNow + TicksPerDay>>,
               <<1, Food, StartNow + TicksPerDay>>,
               <<800, Food, StartNow>>,
               <<200, <<>>, StartNow + TicksPerDay>>,
               <<1, Unclassified, StartNow + TicksPerDay>>,
               <<200, Constructor, StartNow + TicksPerDay>>}}

RECURSIVE ListsUpTo(_, _)
\* the lists of at most n elements of a set
ListsUpTo(set, n) ==
    IF n = 0 THEN {<<>>}
    ELSE LET shorter == ListsUpTo(set, n - 1)
         IN  shorter \cup {Append(l, x) : l \in shorter, x \in set}

AnalysisBudgets ==
    {<<>>,
     <<[category |-> Food, amount |-> 1000]>>,
     <<[category |-> Food, amount |-> 0]>>,
     <<[category |-> Transport, amount |-> 1000],
       [category |-> Unclassified, amount |-> 1000]>>,
     <<[category |-> Constructor, amount |-> 1000]>>}

InitAnalysis ==
    /\ expenses \in ListsUpTo(AnalysisExpenses, MaxAnalysisExpenses)
    /\ budgets \in AnalysisBudgets
    /\ categories = DEFAULT_CATEGORIES
    /\ isLoading = FALSE
    /\ loadPc = "done"
    /\ stored = [e |-> stringify(expenses), b |-> stringify(budgets),
                 c |-> Null]
    /\ store = [k \in Keys |-> IF k = EXPENSES_KEY THEN stringify(expenses)
                                ELSE IF k = BUDGETS_KEY THEN stringify(budgets)
                                ELSE stringify(DEFAULT_CATEGORIES)]
    /\ writes = <<>>
    /\ rejections = 0
    /\ landing = [overtaken |-> <<>>,
                  resolved |-> [k \in Keys |-> [value |-> Null,
                                                overtaken |-> FALSE]]]
    /\ now = StartNow
    /\ newCategory = <<>>
    /\ inputForm = InputFormInitial
    /\ budgetForm = BudgetFormInitial
    /\ analysisScreen = Unmounted
    /\ editDialog = EditDialogInitial
    /\ last = [op |-> "init", arg |-> <<>>, issued |-> <<>>,
               expenses |-> expenses, budgets |-> budgets,
               categories |-> categories, isLoading |-> isLoading]

NextAnalysis ==
    \/ visitAnalysisTab
    \/ TickWithin(MaxAnalysisTicks)
    \* HistoryScreen.handleDelete and the confirmation: onDeleteExpense(id)
    \/ \E i \in DOMAIN expenses :
           /\ handleDeleteExpense(expenses[i].id)
           /\ UNCHANGED formVars
           /\ MemMutation("deleteExpense", expenses[i].id)

SpecAnalysis == InitAnalysis /\ [][NextAnalysis]_vars

(***************************************************************************)
(* The input screen, with the settings screen's removal of a category: the *)
(* form keeps its state while the user is on another tab.                  *)
(***************************************************************************)
\* "konbini de okashi", "basu" followed by the food character, "densha",
\* "kusuri", "hon" (no keyword), and the empty memo
MemoKonbini == Keyword.konbini \o <<"hiragana de", "hiragana o", "ka", "ne">>
MemoBasuShoku == Keyword.basu \o Keyword.shoku

MemoTexts == {<<>>, MemoKonbini, MemoBasuShoku, Keyword.densha, Keyword.kusuri, <<"hon">>}

AmountTexts == {<<>>, <<"1", "5", "0", "0">>}

NextInput ==
    \/ \E text \in MemoTexts : handleMemoChange(text)
    \/ \E text \in AmountTexts : setAmountInput(text)
    \/ \E selectedCat \in {Food, Transport} : handleCategorySelect(selectedCat)
    \/ \E selectedDate \in {StartNow - TicksPerDay} : onChangeDate(selectedDate)
    \/ handlePressRejected
    \/ /\ Len(expenses) < MaxInputExpenses
       /\ handlePress
       /\ MemMutation("addExpense",
                      [amount |-> parseInt(inputForm.amountInput).value,
                       category |-> inputForm.category,
                       memo |-> inputForm.memo,
                       date |-> inputForm.date])
    \/ \E category \in {Food} :
           handleDelete(category) /\ MemMutation("removeCategory", category)

SpecInput == InitLoaded /\ [][NextInput]_vars

(***************************************************************************)
(* The input form when the category dialog is never used: the category of  *)
(* the form comes from handleMemoChange only.                              *)
(***************************************************************************)
NextMemo ==
    \/ \E text \in MemoTexts : handleMemoChange(text)
    \/ \E text \in AmountTexts : setAmountInput(text)
    \/ /\ Len(expenses) < MaxInputExpenses
       /\ handlePress
       /\ MemMutation("addExpense",
                      [amount |-> parseInt(inputForm.amountInput).value,
                       category |-> inputForm.category,
                       memo |-> inputForm.memo,
                       date |-> inputForm.date])
    \/ \E category \in {Food} :
           handleDelete(category) /\ MemMutation("removeCategory", category)

SpecMemo == InitLoaded /\ [][NextMemo]_vars

(***************************************************************************)
(* The four screens together, from the state after a first launch: every   *)
(* collection changes through a form only.  While the edit dialog is shown *)
(* only the dialog can be used.                                            *)
(***************************************************************************)
NextUi ==
    \/ /\ ~editDialog.visible
       /\ \E text \in {<<"1", "5", "0", "0">>, <<"-", "5">>} :
              setAmountInput(text)
    \/ /\ ~editDialog.visible
       /\ \E selectedCat \in {Food} : handleCategorySelect(selectedCat)
    \/ ~editDialog.visible /\ handlePressRejected
    \/ /\ ~editDialog.visible
       /\ Len(expenses) < MaxUiExpenses
       /\ handlePress
       /\ MemMutation("addExpense",
                      [amount |-> parseInt(inputForm.amountInput).value,
                       category |-> inputForm.category,
                       memo |-> inputForm.memo,
                       date |-> inputForm.date])
    \/ ~editDialog.visible /\ visitAnalysisTab
    \/ /\ ~editDialog.visible
       /\ \E text \in {Food, <<" ">>} : setBudgetCategory(text)
    \/ /\ ~editDialog.visible
       /\ \E text \in {<<"1", "0", "0", "0">>, <<"a", "b", "c">>} :
              setBudgetAmountInput(text)
    \/ ~editDialog.visible /\ submitBudgetRejected
    \/ /\ ~editDialog.visible
       /\ submitBudget
       /\ MemMutation("upsertBudget",
                      [category |-> trim(budgetForm.budgetCategory),
                       amount |-> parseInt(budgetForm.budgetAmountInput).value])
    \/ \E i \in DOMAIN expenses : handleEdit(expenses[i])
    \/ \E text \in {<<"0">>, <<"2", "0", "0", "0">>} : setEditAmount(text)
    \/ \E text \in {<<"h", "o", "n">>} : setEditMemo(text)
    \/ dismissEdit
    \/ handleSaveRejected
    \/ /\ handleSave
       /\ MemMutation("updateExpense",
                      [id |-> editDialog.editId,
                       amount |-> parseInt(editDialog.editAmount).value,
                       category |-> editDialog.editCategory,
                       memo |-> editDialog.editMemo,
                       date |-> editDialog.editDate])
    \* HistoryScreen.handleDelete and the confirmation: onDeleteExpense(id)
    \/ /\ ~editDialog.visible
       /\ \E i \in DOMAIN expenses :
              /\ handleDeleteExpense(expenses[i].id)
              /\ UNCHANGED formVars
              /\ MemMutation("deleteExpense", expenses[i].id)
    \/ /\ ~editDialog.visible
       /\ \E text \in {Food, EatingOut} : setNewCategory(text)
    \/ ~editDialog.visible /\ handleAddRejected
    \/ /\ ~editDialog.visible
       /\ handleAdd
       /\ MemMutation("addCategory", trim(newCategory))

SpecUi == InitLoaded /\ [][NextUi]_vars

(***************************************************************************)
(* The store under successive mutations of one collection: the writes of   *)
(* a mutation are issued while those of the one before are in flight.      *)
(***************************************************************************)
NextStore ==
    \/ loadGetExpenses
    \/ loadGetBudgets
    \/ loadGetCategories
    \/ loadParse
    \/ \E budget \in [category : {Food}, amount : {10000, 20000}] :
           /\ handleSetBudget(budget)
           /\ UNCHANGED formVars
           /\ MutationWithin("upsertBudget", budget, MaxStoreInFlight)
    \/ setItemResolves
    \/ setItemRejects

SpecStore == Init /\ [][NextStore]_vars

(***************************************************************************)
(* The in-memory collections when callbacks that change one collection are *)
(* invoked two at a time before the render that follows them.              *)
(***************************************************************************)
\* The calls of a batch, by the collection they change.
BatchCalls ==
    {{[op |-> "addExpense",
       arg |-> newExpense([amount |-> 1500, category |-> Food, memo |-> <<>>,
                           date |-> d])] :
          d \in {StartNow, StartNow - TicksPerDay}}
     \cup {[op |-> "updateExpense",
            arg |-> [expenses[i] EXCEPT !.amount = 2000]] : i \in DOMAIN expenses}
     \cup {[op |-> "deleteExpense", arg |-> expenses[i].id] :
               i \in DOMAIN expenses},
     {[op |-> "upsertBudget", arg |-> [category |-> Food, amount |-> a]] :
         a \in {10000, 20000}},
     {[op |-> "addCategory", arg |-> EatingOut],
      [op |-> "removeCategory", arg |-> EatingOut]}}

NextBatch ==
    \/ \E calls \in BatchCalls :
           \E queue \in ListsUpTo(calls, MaxBatch) :
               LET state == processUpdateQueue([expenses |-> expenses,
                                                budgets |-> budgets,
                                                categories |-> categories],
                                               queue)
               IN  /\ Len(queue) >= 2
                   /\ Len(state.expenses) <= MaxBatchExpenses
                   /\ Len(state.categories) <= Len(DEFAULT_CATEGORIES) + 1
                   /\ expenses' = state.expenses
                   /\ budgets' = state.budgets
                   /\ categories' = state.categories
                   /\ UNCHANGED formVars
                   /\ MemMutation("batch", queue)
    \/ Tick

SpecBatch == InitLoaded /\ [][NextBatch]_vars

(***************************************************************************)
(* The input screen and the history screen: expenses are added with dates  *)
(* of the picker, edited in the dialog and deleted, and days of the        *)
(* calendar are pressed.                                                   *)
(***************************************************************************)
NextHistory ==
    \/ /\ ~editDialog.visible
       /\ \E text \in {<<"2", "5", "0", "1">>} : setAmountInput(text)
    \/ /\ ~editDialog.visible
       /\ \E selectedCat \in {Food} : handleCategorySelect(selectedCat)
    \/ /\ ~editDialog.visible
       /\ \E selectedDate \in {StartNow - TicksPerDay,
                                StartNow - 2 * TicksPerDay} :
              onChangeDate(selectedDate)
    \/ /\ ~editDialog.visible
       /\ Len(expenses) < MaxHistoryExpenses
       /\ handlePress
       /\ MemMutation("addExpense",
                      [amount |-> parseInt(inputForm.amountInput).value,
                       category |-> inputForm.category,
                       memo |-> inputForm.memo,
                       date |-> inputForm.date])
    \/ ~editDialog.visible /\ Tick
    \/ /\ ~editDialog.visible
       /\ \E day \in {StartNow, StartNow - TicksPerDay} :
              onDayPress(toISODate(day))
    \/ \E i \in DOMAIN expenses : handleEdit(expenses[i])
    \/ \E text \in {<<"5", "0", "0", "0">>} : setEditAmount(text)
    \/ /\ handleSave
       /\ MemMutation("updateExpense",
                      [id |-> editDialog.editId,
                       amount |-> parseInt(editDialog.editAmount).value,
                       category |-> editDialog.editCategory,
                       memo |-> editDialog.editMemo,
                       date |-> editDialog.editDate])
    \/ /\ ~editDialog.visible
       /\ \E i \in DOMAIN expenses :
              /\ handleDeleteExpense(expenses[i].id)
              /\ UNCHANGED formVars
              /\ MemMutation("deleteExpense", expenses[i].id)

SpecHistory == InitLoaded /\ [][NextHistory]_vars

(***************************************************************************)
(* Properties.                                                             *)
(***************************************************************************)
MutationOps ==
    {"addExpense", "updateExpense", "deleteExpense", "upsertBudget",
     "addCategory", "removeCategory"}

\* date strings compared as calendar dates: a is not later than b
DateLeq(a, b) ==
    \/ a[1] < b[1]
    \/ a[1] = b[1] /\ a[2] < b[2]
    \/ a[1] = b[1] /\ a[2] = b[2] /\ a[3] <= b[3]

SortedByDateDesc(list) ==
    \A i, j \in DOMAIN list : i < j => DateLeq(list[j].date, list[i].date)

Ids(list) == [i \in DOMAIN list |-> list[i].id]

HasId(list, id) == \E i \in DOMAIN list : list[i].id = id

NoDuplicates(list) ==
    \A i, j \in DOMAIN list : i # j => list[i] # list[j]

BudgetCategories(list) == [i \in DOMAIN list |-> list[i].category]

\* C1: after addExpense with a valid input (positive amount, non-empty
\* category, any date) the expense list is one longer than before, contains
\* the new record and is sorted by date descending, whatever the list was.
C1_AddExpenseGrowsSorted ==
    (last.op = "addExpense" /\ last.arg.amount > 0 /\ last.arg.category # <<>>) =>
        /\ Len(expenses) = Len(last.expenses) + 1
        /\ \E i \in DOMAIN expenses :
               expenses[i] = [id |-> ToString(now),
                              amount |-> last.arg.amount,
                              category |-> last.arg.category,
                              memo |-> last.arg.memo,
                              date |-> CivilFromDays(last.arg.date \div TicksPerDay)]
        /\ SortedByDateDesc(expenses)

\* addExpense was invoked on an unsorted list of two and had to move records
C1_Witness ==
    /\ last.op = "addExpense"
    /\ Len(last.expenses) = 2
    /\ ~SortedByDateDesc(last.expenses)
    /\ expenses[1].id # ToString(now)

\* C2: after deleteExpense(id) no record of the list has identifier id; when
\* no record had it the list is unchanged, and a second deleteExpense(id)
\* gives the list the first one gave.
C2_DeleteExpenseRemoves ==
    last.op = "deleteExpense" =>
        /\ ~HasId(expenses, last.arg)
        /\ ~HasId(last.expenses, last.arg) => expenses = last.expenses
        /\ deleteExpenseUpdater(expenses, last.arg) = expenses
        /\ \A i \in DOMAIN last.expenses :
               last.expenses[i].id # last.arg =>
                   \E j \in DOMAIN expenses : expenses[j] = last.expenses[i]
        /\ Len(expenses) <= Len(last.expenses)

\* deleteExpense removed a record of a list that keeps another one
C2_Witness ==
    /\ last.op = "deleteExpense"
    /\ HasId(last.expenses, last.arg)
    /\ Len(last.expenses) = 3
    /\ Len(expenses) = 2

\* C3: updateExpense(e) leaves the length of the list and the sequence of
\* identifiers unchanged, puts e where a record has identifier e.id, leaves
\* every other record unchanged, and leaves the list unchanged when no
\* record has identifier e.id.
C3_UpdateExpenseReplaces ==
    last.op = "updateExpense" =>
        /\ Len(expenses) = Len(last.expenses)
        /\ Ids(expenses) = Ids(last.expenses)
        /\ \A i \in DOMAIN last.expenses :
               IF last.expenses[i].id = last.arg.id
               THEN expenses[i] = last.arg
               ELSE expenses[i] = last.expenses[i]
        /\ ~HasId(last.expenses, last.arg.id) => expenses = last.expenses

\* updateExpense replaced one record of a list of three and kept another
C3_Witness ==
    /\ last.op = "updateExpense"
    /\ Len(expenses) = 3
    /\ \E i, j \in DOMAIN expenses :
           /\ last.expenses[i].id = last.arg.id
           /\ expenses[i] # last.expenses[i]
           /\ last.expenses[j].id # last.arg.id

\* C4: no two budgets have the same category; upsertBudget for a category
\* already present replaces that entry in place and keeps the length, and
\* for a category not present appends one entry.
C4_UpsertBudgetKeepsCategoriesDistinct ==
    /\ NoDuplicates(BudgetCategories(budgets))
    /\ last.op = "upsertBudget" =>
           IF \E i \in DOMAIN last.budgets :
                  last.budgets[i].category = last.arg.category
           THEN /\ Len(budgets) = Len(last.budgets)
                /\ \A i \in DOMAIN last.budgets :
                       budgets[i] = IF last.budgets[i].category = last.arg.category
                                    THEN last.arg ELSE last.budgets[i]
           ELSE budgets = last.budgets \o <<last.arg>>

\* upsertBudget replaced, with a new amount, the first of three budgets
C4_Witness ==
    /\ last.op = "upsertBudget"
    /\ Len(last.budgets) = 3
    /\ last.budgets[1].category = last.arg.category
    /\ last.budgets[1].amount # last.arg.amount
    /\ budgets[1] = last.arg

\* C5: the category list never holds the same string twice, whatever the
\* user adds and removes in the settings screen.
C5_CategoriesDistinct == NoDuplicates(categories)

\* the food category was removed and added again, after a new category
C5_Witness ==
    /\ last.op = "addCategory"
    /\ last.arg = Food
    /\ categories[Len(categories)] = Food
    /\ includes(categories, EatingOut)

\* C6: any two distinct records of the expense list have distinct
\* identifiers (an identifier is never given to a second expense).
C6_IdentifiersUnique ==
    \A i, j \in DOMAIN expenses : i # j => expenses[i].id # expenses[j].id

\* C7: removeCategory(c) changes the category list and nothing else: the
\* expenses and budgets, those of category c included, are as before; and
\* of the mutation operations only upsertBudget changes the budget list
\* (the store's completions and the clock do not either; the startup load
\* sets it once, before any operation can be invoked).
C7_RemoveCategoryTouchesOnlyCategories ==
    /\ last.op = "removeCategory" =>
           /\ expenses = last.expenses
           /\ budgets = last.budgets
           /\ ~includes(categories, last.arg)
    /\ budgets # last.budgets => last.op \in {"upsertBudget", "loadData"}

\* a category was removed that an expense and a budget carry
C7_Witness ==
    /\ last.op = "removeCategory"
    /\ includes(last.categories, last.arg)
    /\ \E i \in DOMAIN expenses : expenses[i].category = last.arg
    /\ \E i \in DOMAIN budgets : budgets[i].category = last.arg

\* C8: no mutation operation is invoked while isLoading is true.
C8_NoMutationWhileLoading ==
    last.op \in MutationOps => ~last.isLoading /\ loadPc = "done"

\* the load is still in progress after its three reads, nothing invoked
C8_Witness ==
    /\ isLoading
    /\ loadPc = "parse"
    /\ last.op = "getItem"

KeyOf(op) ==
    IF op \in {"addExpense", "updateExpense", "deleteExpense"} THEN EXPENSES_KEY
    ELSE IF op = "upsertBudget" THEN BUDGETS_KEY
    ELSE CATEGORIES_KEY

Collection(key) ==
    IF key = EXPENSES_KEY THEN expenses
    ELSE IF key = BUDGETS_KEY THEN budgets
    ELSE categories

\* C9: a mutation invoked after loading has issued, when its state update
\* is committed, a write of the new snapshot of its collection under that
\* collection's key; the collection already has its new value while the
\* write is still in flight.
C9_MutationIssuesWrite ==
    last.op \in MutationOps =>
        /\ \E i \in DOMAIN last.issued :
               /\ last.issued[i].key = KeyOf(last.op)
               /\ last.issued[i].value.kind = "json"
               /\ last.issued[i].value.value = Collection(KeyOf(last.op))
        /\ Len(writes) >= Len(last.issued)
        /\ SubSeq(writes, Len(writes) - Len(last.issued) + 1, Len(writes))
               = last.issued

\* an expense was added: it is in memory, its write is in flight and the
\* store still holds the list without it
C9_Witness ==
    /\ last.op = "addExpense"
    /\ Len(expenses) = Len(last.expenses) + 1
    /\ store[EXPENSES_KEY] = stringify(last.expenses)
    /\ \E i \in DOMAIN writes : writes[i] = [key |-> EXPENSES_KEY,
                                              value |-> stringify(expenses)]

\* C10: a write that fails leaves the three collections and the store as
\* they are and is not issued again; the value stored under a key changes
\* only when a write of that key succeeds, and is then the snapshot that
\* write carried.
C10_FailedWriteIgnored ==
    [][/\ last'.op = "setItemRejected" =>
           /\ UNCHANGED <<expenses, budgets, categories, store>>
           /\ Len(writes') = Len(writes) - 1
           /\ \E i \in DOMAIN writes :
                  writes[i] = last'.arg /\ writes' = RemoveAt(writes, i)
       /\ \A k \in Keys :
              store'[k] # store[k] =>
                  /\ last'.op = "setItemResolved"
                  /\ last'.arg.key = k
                  /\ store'[k] = last'.arg.value
                  /\ \E i \in DOMAIN writes : writes[i] = last'.arg
      ]_vars

\* a write of the expense list failed: the store holds an older list than
\* memory and no write of the key is in flight
C10_Witness ==
    /\ last.op = "setItemRejected"
    /\ last.arg.key = EXPENSES_KEY
    /\ last.arg.value = stringify(expenses)
    /\ Len(expenses) > 0
    /\ store[EXPENSES_KEY] # stringify(expenses)
    /\ \A i \in DOMAIN writes : writes[i].key # EXPENSES_KEY

\* C11: when the text read under one of the three keys at startup is not
\* JSON, the application runs, once loading has completed, with an empty
\* expense list and an empty budget list, whichever key it was and whatever
\* the other two keys held.
C11_MalformedLoadLeavesEmpty ==
    (loadPc = "done" /\ \E f \in {"e", "b", "c"} : stored[f] = Malformed) =>
        expenses = <<>> /\ budgets = <<>>

RECURSIVE SumAmounts(_, _)
\* the sum of the amounts of the records of list at the positions of a set
SumAmounts(list, positions) ==
    IF positions = {} THEN 0
    ELSE LET i == CHOOSE i \in positions : TRUE
         IN  list[i].amount + SumAmounts(list, positions \ {i})

RECURSIVE SumTotals(_, _)
\* the sum of the totals of a set of categories
SumTotals(totals, cats) ==
    IF cats = {} THEN 0
    ELSE LET c == CHOOSE c \in cats : TRUE
         IN  totals[c].value + SumTotals(totals, cats \ {c})

\* positions of the expenses whose date starts with the month key
InMonthPositions(key) ==
    {i \in DOMAIN expenses : expenses[i].date[1] = key[1]
                              /\ expenses[i].date[2] = key[2]}

\* the total shown for a category: none counts as 0
TotalOf(totals, c) == IF c \in DOMAIN totals THEN totals[c] ELSE Num(0)

\* C12: for any expense list, the per-category totals of the analysis are
\* numbers whose sum is the sum of the amounts of the expenses aggregated
\* (those of the month) and is the grand total reported.
C12_CategoryTotalsSumToGrandTotal ==
    analysisScreen.mounted =>
        LET totals == analysisScreen.categoryTotals
            aggregated == InMonthPositions(analysisScreen.currentYearMonth)
        IN  /\ \A c \in DOMAIN totals : totals[c].type = "number"
            /\ SumTotals(totals, DOMAIN totals) = SumAmounts(expenses, aggregated)
            /\ SumTotals(totals, DOMAIN totals) = analysisScreen.monthlyTotal

\* C13: for any expense list and month key, the month's total of a category
\* c is the sum of the amounts of exactly the expenses whose date starts
\* with the key and whose category is c, and the month's grand total is the
\* sum of the amounts of all expenses whose date starts with the key.
C13_MonthTotalsByCategory ==
    analysisScreen.mounted =>
        LET totals == analysisScreen.categoryTotals
            aggregated == InMonthPositions(analysisScreen.currentYearMonth)
            cats == DOMAIN totals \cup {expenses[i].category : i \in DOMAIN expenses}
        IN  /\ \A c \in cats :
                   TotalOf(totals, c) =
                       Num(SumAmounts(expenses,
                                      {i \in aggregated : expenses[i].category = c}))
            /\ analysisScreen.monthlyTotal = SumAmounts(expenses, aggregated)

\* C14: for a budget with cap and the month's spending spent of its
\* category (0 when the category has no total), the ratio shown is
\* spent/cap, 0 when cap is 0; the tier is over-budget exactly when
\* spent > cap, near-budget exactly when 0.8*cap < spent <= cap and
\* under-budget exactly when spent <= 0.8*cap; remaining is cap - spent.
C14_BudgetProgressTiers ==
    analysisScreen.mounted =>
        \A i \in DOMAIN budgets :
            LET shown == analysisScreen.budgetProgress[i]
                cap == budgets[i].amount
                totals == analysisScreen.categoryTotals
                spent == IF budgets[i].category \in DOMAIN totals
                         THEN totals[budgets[i].category] ELSE Num(0)
            IN  /\ shown.spent = spent
                /\ spent.type = "number"
                /\ shown.progress = [type |-> "fraction",
                                     value |-> IF cap = 0 THEN <<0, 1>>
                                               ELSE <<spent.value, cap>>]
                /\ shown.progressColor = "error" <=> spent.value > cap
                /\ shown.progressColor = "orange" <=>
                       (4 * cap < 5 * spent.value /\ spent.value <= cap)
                /\ shown.progressColor = "#4CAF50" <=> 5 * spent.value <= 4 * cap
                /\ shown.remaining = Num(cap - spent.value)

\* the keyword tables in their order: food, transport, daily goods,
\* entertainment, housing
KeywordTables ==
    << [keywords |-> {Keyword.shoku, Keyword.konbini, Keyword.suupaa}, category |-> Food],
       [keywords |-> {Keyword.densha, Keyword.basu, Keyword.takushii}, category |-> Transport],
       [keywords |-> {Keyword.kusuri, Keyword.nichiyouhin}, category |-> DEFAULT_CATEGORIES[3]],
       [keywords |-> {Keyword.geemu, Keyword.shumi}, category |-> DEFAULT_CATEGORIES[4]],
       [keywords |-> {Keyword.yachin, Keyword.denki}, category |-> DEFAULT_CATEGORIES[7]] >>

\* the keyword occurs in the text
Occurs(keyword, text) ==
    \E i, j \in DOMAIN text : i <= j /\ SubSeq(text, i, j) = keyword

TableMatches(t, text) == \E keyword \in KeywordTables[t].keywords : Occurs(keyword, text)

\* C15: the category inferred from a memo is that of the first table, in
\* the order food, transport, daily goods, entertainment, housing, one of
\* whose keywords occurs in the lowercased memo, and none when no keyword of
\* any table occurs; a memo with a food and a transport keyword gives food.
C15_InferenceFirstTableWins ==
    last.op = "memoChange" =>
        LET lowered == toLowerCase(last.arg.text)
            matching == {t \in DOMAIN KeywordTables : TableMatches(t, lowered)}
        IN  /\ matching = {} => last.arg.suggestedCategory = NoCategory
            /\ \A t \in matching :
                   (\A u \in matching : t <= u) =>
                       last.arg.suggestedCategory = KeywordTables[t].category
            /\ (TableMatches(1, lowered) /\ TableMatches(2, lowered)) =>
                   last.arg.suggestedCategory = Food

\* a memo in which a transport keyword comes before a food keyword was
\* entered, and food was inferred
C15_Witness ==
    /\ last.op = "memoChange"
    /\ last.arg.text = MemoBasuShoku
    /\ last.arg.suggestedCategory = Food
    /\ inputForm.memo = MemoBasuShoku

\* C16: a memo edit changes the category of the form only when the category
\* is empty and the inferred category is in the category list (and then to
\* the inferred category); otherwise the category is as before the edit.
C16_MemoEditSetsOnlyEmptyCategory ==
    [][last'.op = "memoChange" =>
          (inputForm'.category # inputForm.category =>
              /\ inputForm.category = <<>>
              /\ last'.arg.suggestedCategory # NoCategory
              /\ includes(categories, last'.arg.suggestedCategory)
              /\ inputForm'.category = last'.arg.suggestedCategory)
      ]_vars

\* a memo naming food was entered after the food category was removed: the
\* category of the form stayed empty
C16_Witness ==
    /\ last.op = "memoChange"
    /\ last.arg.suggestedCategory = Food
    /\ ~includes(categories, Food)
    /\ inputForm.category = <<>>
    /\ inputForm.memo = MemoKonbini

\* C18: an expense created through the input form carries a category that
\* is in the category list when addExpense is invoked, whatever the order
\* of category selection, memo edits, removal of categories and submission.
C18_NewExpenseCategoryIsListed ==
    last.op = "addExpense" => includes(last.categories, last.arg.category)

\* the text is not a number, or is a number that is not positive
InvalidAmountText(text) ==
    LET n == parseInt(text) IN n.type = "NaN" \/ n.value <= 0

\* C17: a submission that fails validation (expense form and edit dialog:
\* amount not a number or not positive; expense form: empty category;
\* settings: new name empty after trimming or already in the list; budget
\* form: invalid amount or empty category) invokes no mutation: the three
\* collections are unchanged, no write is issued, and the fields of the
\* forms keep their values.
C17_RejectedSubmissionChangesNothing ==
    [][LET expenseFails ==
               /\ last'.op \in {"addExpense", "handlePressRejected"}
               /\ \/ InvalidAmountText(inputForm.amountInput)
                  \/ inputForm.category = <<>>
           editFails ==
               /\ last'.op \in {"updateExpense", "handleSaveRejected"}
               /\ InvalidAmountText(editDialog.editAmount)
           categoryFails ==
               /\ last'.op \in {"addCategory", "handleAddRejected"}
               /\ \/ trim(newCategory) = <<>>
                  \/ \E i \in DOMAIN categories : categories[i] = trim(newCategory)
           budgetFails ==
               /\ last'.op \in {"upsertBudget", "submitBudgetRejected"}
               /\ \/ InvalidAmountText(budgetForm.budgetAmountInput)
                  \/ trim(budgetForm.budgetCategory) = <<>>
       IN  (expenseFails \/ editFails \/ categoryFails \/ budgetFails) =>
               /\ last'.op \notin MutationOps
               /\ UNCHANGED <<expenses, budgets, categories, writes>>
               /\ UNCHANGED <<newCategory, inputForm, budgetForm, editDialog>>
      ]_vars

\* the expense form was submitted with the amount "-5" and a category: it
\* was rejected and still shows both
C17_Witness ==
    /\ last.op = "handlePressRejected"
    /\ inputForm.amountInput = <<"-", "5">>
    /\ inputForm.category = Food
    /\ last.expenses = expenses

\* the records of a list that carry a date, in the order of the list
OfDate(list, date) ==
    LET Same(e) == e.date = date IN SelectSeq(list, Same)

\* C19: when addExpense inserts an expense whose date is that of expenses
\* already in the list, the new expense is placed before every existing
\* expense of that date, and the existing expenses of that date keep their
\* relative order.
C19_EqualDateInsertGoesFirst ==
    LET new == [id |-> ToString(now),
                amount |-> last.arg.amount,
                category |-> last.arg.category,
                memo |-> last.arg.memo,
                date |-> CivilFromDays(last.arg.date \div TicksPerDay)]
    IN  (/\ last.op = "addExpense"
         /\ \E i \in DOMAIN last.expenses : last.expenses[i].date = new.date) =>
            \E p \in DOMAIN expenses :
                /\ expenses[p] = new
                /\ \A q \in DOMAIN expenses : q < p => expenses[q].date # new.date
                /\ OfDate(RemoveAt(expenses, p), new.date)
                       = OfDate(last.expenses, new.date)

\* an expense was added to a list holding two different expenses of its
\* date, the later of the two first: it is now first of the three
C19_Witness ==
    /\ last.op = "addExpense"
    /\ Len(last.expenses) = 2
    /\ last.expenses[1] # last.expenses[2]
    /\ last.expenses[1].date = last.expenses[2].date
    /\ last.expenses[1].date = CivilFromDays(last.arg.date \div TicksPerDay)
    /\ Len(expenses) = 3
    /\ SubSeq(expenses, 2, 3) = last.expenses

\* C20: from an empty store and through the user interface, every expense
\* has a positive integer amount and a non-empty category, and so has every
\* budget.
C20_AmountsPositiveCategoriesNonEmpty ==
    /\ \A i \in DOMAIN expenses :
           /\ expenses[i].amount \in Nat
           /\ expenses[i].amount > 0
           /\ expenses[i].category # <<>>
    /\ \A i \in DOMAIN budgets :
           /\ budgets[i].amount \in Nat
           /\ budgets[i].amount > 0
           /\ budgets[i].category # <<>>

\* an expense was entered and then edited in the dialog, and a budget set
C20_Witness ==
    /\ last.op = "updateExpense"
    /\ Len(expenses) = 1
    /\ expenses[1].amount = 2000
    /\ Len(budgets) = 1

\* the writes of the key are all completed
NoneInFlight(key) == \A i \in DOMAIN writes : writes[i].key # key

RECURSIVE AfterCalls(_, _, _)
\* the collections after the first n mutations of a list of calls, each
\* applied to what the one before it left
AfterCalls(state, calls, n) ==
    IF n = 0 THEN state
    ELSE applyUpdate(AfterCalls(state, calls, n - 1), calls[n])

C23_MonthKeyIsCurrentMonth ==
    (analysisScreen.mounted /\ last.op \in {"renderAnalysis"} \cup MutationOps) =>
        \E offset \in TimeZoneOffsets :
            analysisScreen.currentYearMonth = yearMonth(now, offset)

\* the positions of the expenses of a date
OnDate(list, date) == {i \in DOMAIN list : list[i].date = date}

\* C24: the total of a date is the sum of the amounts of the expenses of
\* exactly that date; a date carries a spending marker exactly when an
\* expense has that date; the marker is of the high tier exactly when the
\* total of the day is greater than 5000.
C24_DayTotalsAndMarkers ==
    last.op = "dayPress" =>
        LET totals == last.arg.totalByDate
            marks == last.arg.markedDates
            dates == {expenses[i].date : i \in DOMAIN expenses}
        IN  /\ DOMAIN totals = dates
            /\ \A d \in dates :
                   totals[d] = Num(SumAmounts(expenses, OnDate(expenses, d)))
            /\ \A d \in dates \cup DOMAIN marks \cup {last.arg.selectedDate} :
                   /\ (d \in DOMAIN marks /\ marks[d].marked) <=> d \in dates
                   /\ d \in dates =>
                          (marks[d].dotColor = "#d9534f" <=>
                               SumAmounts(expenses, OnDate(expenses, d)) > 5000)
                   /\ d \in dates =>
                          (marks[d].dotColor = "#007aff" <=>
                               SumAmounts(expenses, OnDate(expenses, d)) <= 5000)

\* a day was pressed when one date has a single expense of 5000, with the
\* marker of the normal tier, another has two expenses of 5002 together,
\* with the marker of the high tier, and the day pressed has no expense
C24_Witness ==
    /\ last.op = "dayPress"
    /\ \E d, e \in DOMAIN last.arg.totalByDate :
           /\ last.arg.totalByDate[d] = Num(5000)
           /\ last.arg.markedDates[d].dotColor = "#007aff"
           /\ last.arg.totalByDate[e] = Num(5002)
           /\ Cardinality(OnDate(expenses, e)) = 2
           /\ last.arg.markedDates[e].dotColor = "#d9534f"
    /\ last.arg.selectedDate \notin DOMAIN last.arg.totalByDate
    /\ ~last.arg.markedDates[last.arg.selectedDate].marked

\* C26: from an empty store, through additions, deletions and edits made in
\* the edit dialog, the expense list is sorted by date descending; a save of
\* the edit dialog leaves the date, the category and the identifier of the
\* expense edited as they were.
C26_ListStaysSortedThroughEdits ==
    /\ SortedByDateDesc(expenses)
    /\ last.op = "updateExpense" =>
           \E i \in DOMAIN last.expenses :
               /\ last.expenses[i].id = last.arg.id
               /\ last.expenses[i].date = last.arg.date
               /\ last.expenses[i].category = last.arg.category

\* how far loadData has come
LoadRank ==
    CASE loadPc = "mount" -> 0
      [] loadPc = "getExpenses" -> 1
      [] loadPc = "getBudgets" -> 2
      [] loadPc = "getCategories" -> 3
      [] loadPc = "parse" -> 4
      [] loadPc = "done" -> 5

\* C25: the startup load is performed once, each of its steps at most once
\* and never again after it has finished; isLoading is true until the load
\* has finished and false from then on, and it does become false, whether
\* the reads resolve, reject or give malformed text.
C25_LoadRunsOnceAndEnds ==
    /\ [][LoadRank' >= LoadRank /\ (isLoading' => isLoading)]_vars
    /\ [](isLoading <=> loadPc # "done")
    /\ <>[](~isLoading)

\* the load has ended on malformed budgets
C25_Witness ==
    /\ ~isLoading
    /\ loadPc = "done"
    /\ last.op = "loadData"
    /\ stored.e = stringify(Previous.expenses)
    /\ stored.b = Malformed

C28_StoreEqualsMemoryWhenQuiet ==
    (/\ ~isLoading
     /\ writes = <<>>
     /\ rejections = 0
     /\ \A key \in Keys : ~landing.resolved[key].overtaken)
        => \A key \in Keys : store[key] = stringify(Collection(key))

\* a budget was set after loading, every write has landed in the order of
\* issue, and the store holds the new budgets
C28_Witness ==
    /\ ~isLoading
    /\ writes = <<>>
    /\ rejections = 0
    /\ \A key \in Keys : ~landing.resolved[key].overtaken
    /\ budgets # <<>>
    /\ store[BUDGETS_KEY] = stringify(budgets)
    /\ last.op = "setItemResolved"

\* C29: a key that held a value before launch, and whose value the load
\* did not put in memory, keeps that value through the writes that follow
\* the load: no step replaces the value stored under a key unless the
\* in-memory collection of that key is the one parsed from it.
C29_UnloadedKeysKeepTheirValue ==
    [][\A key \in Keys :
           (/\ store[key] # Null
            /\ ~(parses(store[key]) /\ Collection(key) = parse(store[key])))
               => store'[key] = store[key]]_vars

\* C30: on a form whose category was never selected in the dialog, the
\* category of the form is the category inferred from the memo text the
\* form holds, whenever that category is in the category list.
C30_CategoryFollowsMemo ==
    LET suggestedCategory == getCategoryFromMemo(inputForm.memo)
    IN  (suggestedCategory # NoCategory
         /\ includes(categories, suggestedCategory))
            => inputForm.category = suggestedCategory
====
